---- MODULE Spec2Model ----
(***************************************************************************)
(* A model of the LegalRAG retrieval pipeline (src/legalrag/app):          *)
(*   document_processor.py  chunker                                        *)
(*   database.py            vector index adapter (ChromaDB collection)     *)
(*   search.py, reranker.py retrieval orchestrator and reranker            *)
(*   synthesis.py           answer synthesizer                             *)
(*   main.py                the /upload, /search, /documents endpoints     *)
(*                                                                         *)
(* Representation.                                                         *)
(*  - A text is represented by its words; a chunk text is the window       *)
(*    <<start, end>> of word offsets words[start:end].                     *)
(*  - A document id is md5(filename + "_" + now)[:12]; the digest is        *)
(*    injective on the small domain used here, so it is the pair           *)
(*    <<filename, now>>.  A chunk id "<doc>_chunk_<n>" is <<doc, n>>.      *)
(*  - Scores are integers in units of 1e-4 (the code rounds to 4           *)
(*    decimals); distances are integers in units of 1e-5.                  *)
(*  - The oracles (embedding + nearest neighbour order, cross-encoder,     *)
(*    completion API) are inputs of the actions.                           *)
(***************************************************************************)
EXTENDS Integers, Sequences, FiniteSets, TLC

VARIABLES
    index,          \* VectorDatabase.collection: the set of stored entries
    resp,           \* the response of the last request
    search_engine,  \* search.py global search_engine (None or the instance)
    load_attempts,  \* number of calls of get_reranker() so far
    synthesizer,    \* synthesis.py global synthesizer (None or the instance)
    environ,        \* os.environ of the process: [GROQ_API_KEY |-> ...]
    pc,             \* position of a single pure-function run
    inp,            \* its inputs
    out             \* its result

vars == <<index, resp, search_engine, load_attempts, synthesizer, environ, pc, inp, out>>

None == "None"      \* Python None where a string is expected
Nothing == <<>>     \* Python None where a bool, an int or an object is expected
Some(x) == <<x>>    \* a value that is not None
Empty == ""         \* the empty string

(***************************************************************************)
(* Small helpers.                                                          *)
(***************************************************************************)
Min(a, b) == IF a <= b THEN a ELSE b
Max(a, b) == IF a >= b THEN a ELSE b

\* Python truthiness of an optional string: None and "" are falsy.
Truthy(s) == s # None /\ s # Empty

\* ceil(a / b) for a >= 0, b > 0
CeilDiv(a, b) == (a + b - 1) \div b

Range(s) == {s[i] : i \in 1..Len(s)}

\* s[:n] for n >= 0
Take(s, n) == SubSeq(s, 1, Min(n, Len(s)))

(***************************************************************************)
(* document_processor.py: the chunker.                                     *)
(***************************************************************************)
\* DocumentProcessor.__init__ defaults, used by the global processor.
DefaultChunkSize == 250
DefaultChunkOverlap == 25

\* _generate_document_id(filename) at clock reading now.
GenerateDocumentId(filename, now) == <<filename, now>>

(***************************************************************************)
(* Python floats are IEEE-754 binary64.  A positive float is modelled as   *)
(* [m, e]: m the 53 significand bits, most significant (always 1) first,   *)
(* and e the binary exponent of m[1]; its value is the sum of              *)
(* m[i] * 2^(e - i + 1).  Trailing zero bits of m may be left out, so m    *)
(* has between 1 and 53 bits.  FloatZero is 0.0.                           *)
(***************************************************************************)
SignificandBits == 53

FloatZero == [m |-> <<>>, e |-> 0]

\* n zero bits (none for n <= 0)
Zeros(n) == IF n <= 0 THEN <<>> ELSE [i \in 1..n |-> 0]

\* The binary digits of the integer n >= 0, most significant first.
RECURSIVE IntBits(_)
IntBits(n) == IF n = 0 THEN <<>> ELSE IntBits(n \div 2) \o <<n % 2>>

\* The integer with binary digits bits.
RECURSIVE BitsValue(_)
BitsValue(bits) ==
    IF bits = <<>> THEN 0
    ELSE 2 * BitsValue(SubSeq(bits, 1, Len(bits) - 1)) + bits[Len(bits)]

\* Long arithmetic works on bytes (base 256 digits) of the bit strings.
Byte == 256

\* The eight bits of a byte d, and the bytes of a string of 8k bits.
ByteBits(d) == <<(d \div 128) % 2, (d \div 64) % 2, (d \div 32) % 2, (d \div 16) % 2, (d \div 8) % 2, (d \div 4) % 2, (d \div 2) % 2, d % 2>>

RECURSIVE BytesToBits(_)
BytesToBits(bytes) ==
    IF bytes = <<>> THEN <<>> ELSE ByteBits(Head(bytes)) \o BytesToBits(Tail(bytes))

RECURSIVE BitsToBytes(_)
BitsToBytes(bits) ==
    IF bits = <<>> THEN <<>>
    ELSE <<BitsValue(SubSeq(bits, 1, 8))>> \o BitsToBytes(SubSeq(bits, 9, Len(bits)))

\* bits followed by zero bits up to a whole number of bytes
PadToBytes(bits) == bits \o Zeros((8 - (Len(bits) % 8)) % 8)

\* bits + 1 on a significand; all ones carry into a new leading bit.
Increment(bits) ==
    IF \A i \in 1..Len(bits) : bits[i] = 1 THEN <<1>> \o Zeros(Len(bits))
    ELSE LET z == CHOOSE i \in 1..Len(bits) :
                      bits[i] = 0 /\ \A j \in (i + 1)..Len(bits) : bits[j] = 1
         IN  SubSeq(bits, 1, z - 1) \o <<1>> \o Zeros(Len(bits) - z)

\* Round the exact value with digits bits (bits[1] = 1, exponent e) to a
\* float: round to nearest, ties to even.
RoundNearestEven(bits, e) ==
    IF Len(bits) <= SignificandBits THEN [m |-> bits, e |-> e]
    ELSE LET kept   == SubSeq(bits, 1, SignificandBits)
             guard  == bits[SignificandBits + 1]
             sticky == \E i \in (SignificandBits + 2)..Len(bits) : bits[i] = 1
             up     == guard = 1 /\ (sticky \/ kept[SignificandBits] = 1)
             inc    == Increment(kept)
         IN  IF ~up THEN [m |-> kept, e |-> e]
             ELSE IF Len(inc) > SignificandBits
                  THEN [m |-> SubSeq(inc, 1, SignificandBits), e |-> e + 1]
                  ELSE [m |-> inc, e |-> e]

\* Enough bytes of a quotient in [1, 2) to round it: 1 + 8 * 7 bits
FractionBytes == 7

\* Long division: up to n more bytes of r / b (r < b) appended to acc,
\* until the remainder is 0; a remainder left after n bytes appends one
\* more non-zero byte (the quotient lies strictly above the bytes produced).
RECURSIVE DivBytes(_, _, _, _)
DivBytes(r, b, n, acc) ==
    IF r = 0 THEN acc
    ELSE IF n = 0 THEN acc \o <<1>>
    ELSE DivBytes((r * Byte) % b, b, n - 1, acc \o <<(r * Byte) \div b>>)

\* Scale a / b into [1, 2): the float quotient of a / b with exponent e.
RECURSIVE Quotient(_, _, _)
Quotient(a, b, e) ==
    IF a < b THEN Quotient(2 * a, b, e - 1)
    ELSE IF a >= 2 * b THEN Quotient(a, 2 * b, e + 1)
    ELSE RoundNearestEven(<<1>> \o BytesToBits(DivBytes(a - b, b, FractionBytes, <<>>)), e)

\* a / b for integers a >= 0, b > 0 (int true division, correctly rounded)
TrueDivide(a, b) == IF a = 0 THEN FloatZero ELSE Quotient(a, b, 0)

\* The bits of bytes * n + carry, for the bytes 1..i still to multiply.
RECURSIVE MulBytes(_, _, _, _, _)
MulBytes(bytes, i, n, carry, acc) ==
    IF i = 0 THEN IntBits(carry) \o BytesToBits(acc)
    ELSE MulBytes(bytes, i - 1, n, (bytes[i] * n + carry) \div Byte,
                  <<(bytes[i] * n + carry) % Byte>> \o acc)

\* x * n for a float x and an integer n >= 0 (n converts exactly)
FloatTimesInt(x, n) ==
    IF x = FloatZero \/ n = 0 THEN FloatZero
    ELSE LET padded == PadToBytes(x.m)
             bits   == MulBytes(BitsToBytes(padded), Len(padded) \div 8, n, 0, <<>>)
         IN  RoundNearestEven(bits, x.e + Len(bits) - Len(padded))

\* int(x) for a float x >= 0: truncation
FloatToInt(x) ==
    IF x = FloatZero \/ x.e < 0 THEN 0
    ELSE BitsValue(SubSeq(x.m \o Zeros(x.e + 1 - Len(x.m)), 1, x.e + 1))

\* _estimate_page(word_position, total_words, total_pages):
\* progress = word_position / total_words;
\* min(int(progress * total_pages) + 1, total_pages), in float arithmetic.
MutEstimatePageFromEnd(word_position, total_words, total_pages) ==
    IF total_words = 0 THEN 1
    ELSE LET progress == TrueDivide(word_position, total_words)
         IN  Max(total_pages - FloatToInt(FloatTimesInt(progress, total_pages)), 1)
EstimatePage(word_position, total_words, total_pages) ==
    IF total_words = 0 THEN 1
    ELSE LET progress == TrueDivide(word_position, total_words)
         IN  Min(FloatToInt(FloatTimesInt(progress, total_pages)) + 1, total_pages)

\* One DocumentChunk built in the body of the while loop (total_chunks = 0).
MutMakeChunkOrdinalZero(pos, chunk_num, total_words, document_id, filename, user_id, total_pages, chunk_size) ==
    [ text         |-> <<pos, Min(pos + chunk_size, total_words)>>,
      document_id  |-> document_id,
      filename     |-> filename,
      page         |-> EstimatePage(pos, total_words, total_pages),
      chunk_id     |-> <<document_id, 0>>,
      total_chunks |-> 0,
      user_id      |-> user_id,
      total_pages  |-> total_pages ]
MutMakeChunkWholeRest(pos, chunk_num, total_words, document_id, filename, user_id, total_pages, chunk_size) ==
    [ text         |-> <<pos, total_words>>,
      document_id  |-> document_id,
      filename     |-> filename,
      page         |-> EstimatePage(pos, total_words, total_pages),
      chunk_id     |-> <<document_id, chunk_num>>,
      total_chunks |-> 0,
      user_id      |-> user_id,
      total_pages  |-> total_pages ]
MakeChunk(pos, chunk_num, total_words, document_id, filename, user_id, total_pages, chunk_size) ==
    [ text         |-> <<pos, Min(pos + chunk_size, total_words)>>,
      document_id  |-> document_id,
      filename     |-> filename,
      page         |-> EstimatePage(pos, total_words, total_pages),
      chunk_id     |-> <<document_id, chunk_num>>,
      total_chunks |-> 0,
      user_id      |-> user_id,
      total_pages  |-> total_pages ]

\* The next window start: pos += chunk_size - chunk_overlap
MutAdvanceNoOverlap(pos, chunk_size, chunk_overlap) == pos + chunk_size
Advance(pos, chunk_size, chunk_overlap) == pos + chunk_size - chunk_overlap

\* The while loop of _create_chunks from window start pos on.
RECURSIVE ChunkLoop(_, _, _, _, _, _, _, _, _)
ChunkLoop(pos, chunk_num, total_words, document_id, filename, user_id, total_pages, chunk_size, chunk_overlap) ==
    IF pos < total_words
    THEN <<MakeChunk(pos, chunk_num, total_words, document_id, filename,
                     user_id, total_pages, chunk_size)>>
         \o ChunkLoop(Advance(pos, chunk_size, chunk_overlap), chunk_num + 1,
                      total_words, document_id, filename, user_id,
                      total_pages, chunk_size, chunk_overlap)
    ELSE <<>>

\* The backfill of total_chunks after the loop.
MutBackfillOrdinal(chunks) ==
    [i \in 1..Len(chunks) |-> [chunks[i] EXCEPT !.total_chunks = i]]
Backfill(chunks) ==
    [i \in 1..Len(chunks) |-> [chunks[i] EXCEPT !.total_chunks = Len(chunks)]]

\* _create_chunks for a text of total_words words.
CreateChunks(total_words, document_id, filename, user_id, total_pages, chunk_size, chunk_overlap) ==
    Backfill(ChunkLoop(0, 0, total_words, document_id, filename, user_id,
                       total_pages, chunk_size, chunk_overlap))

\* process_pdf with the global processor, for a PDF whose extracted text has
\* total_words words on total_pages pages.
ProcessPdf(filename, user_id, now, total_words, total_pages) ==
    CreateChunks(total_words, GenerateDocumentId(filename, now), filename,
                 user_id, total_pages, DefaultChunkSize, DefaultChunkOverlap)

(***************************************************************************)
(* document_processor.py: text extraction with OCR fallback.               *)
(* A page is [layer, image, psm3, psm1]: what page.get_text() returns,     *)
(* whether rendering ("render") or preprocessing ("preprocess") of the     *)
(* page image raises, and what pytesseract returns in segmentation modes 3 *)
(* and 1; Raises stands for a call that raises.                            *)
(***************************************************************************)
Raises == "<raises>"

\* not text.strip(): the texts of the model that consist of whitespace only
IsBlank(text) == text \in {"", " \n"}

\* The body of the page loop for one page: [raised: an exception leaves the
\* loop, text: the entry written to text_by_page, ocr: the increment of
\* ocr_pages, attempted: whether the OCR branch was entered].
MutExtractPageNoFallback(page) ==
    IF page.layer = Raises
    THEN [raised |-> TRUE, text |-> "", ocr |-> 0, attempted |-> FALSE]
    ELSE IF ~IsBlank(page.layer)
    THEN [raised |-> FALSE, text |-> page.layer, ocr |-> 0, attempted |-> FALSE]
    ELSE IF page.image # "ok" \/ page.psm3 = Raises
    THEN [raised |-> FALSE, text |-> "", ocr |-> 0, attempted |-> TRUE]
    ELSE [raised |-> FALSE, text |-> page.psm3, ocr |-> 1, attempted |-> TRUE]
MutExtractPageOcrAborts(page) ==
    IF page.layer = Raises
    THEN [raised |-> TRUE, text |-> "", ocr |-> 0, attempted |-> FALSE]
    ELSE IF ~IsBlank(page.layer)
    THEN [raised |-> FALSE, text |-> page.layer, ocr |-> 0, attempted |-> FALSE]
    ELSE IF page.image # "ok"
    THEN [raised |-> TRUE, text |-> "", ocr |-> 0, attempted |-> TRUE]
    ELSE IF page.psm3 # Raises
    THEN [raised |-> FALSE, text |-> page.psm3, ocr |-> 1, attempted |-> TRUE]
    ELSE IF page.psm1 # Raises
    THEN [raised |-> FALSE, text |-> page.psm1, ocr |-> 1, attempted |-> TRUE]
    ELSE [raised |-> TRUE, text |-> "", ocr |-> 0, attempted |-> TRUE]
ExtractPage(page) ==
    IF page.layer = Raises
    THEN [raised |-> TRUE, text |-> "", ocr |-> 0, attempted |-> FALSE]
    ELSE IF ~IsBlank(page.layer)
    THEN [raised |-> FALSE, text |-> page.layer, ocr |-> 0, attempted |-> FALSE]
    ELSE IF page.image # "ok"
    THEN [raised |-> FALSE, text |-> "", ocr |-> 0, attempted |-> TRUE]
    ELSE IF page.psm3 # Raises
    THEN [raised |-> FALSE, text |-> page.psm3, ocr |-> 1, attempted |-> TRUE]
    ELSE IF page.psm1 # Raises
    THEN [raised |-> FALSE, text |-> page.psm1, ocr |-> 1, attempted |-> TRUE]
    ELSE [raised |-> FALSE, text |-> "", ocr |-> 0, attempted |-> TRUE]

(***************************************************************************)
(* database.py: the vector index adapter.                                  *)
(***************************************************************************)
NoUser == "<absent>"    \* metadata without a "user_id" key

\* DocumentChunk.to_metadata together with the text and id of the entry.
\* (upload_date and the OCR counters are not modelled.)
ToEntry(chunk) ==
    [ chunk_id     |-> chunk.chunk_id,
      text         |-> chunk.text,
      document_id  |-> chunk.document_id,
      filename     |-> chunk.filename,
      page         |-> chunk.page,
      total_chunks |-> chunk.total_chunks,
      user_id      |-> IF Truthy(chunk.user_id) THEN chunk.user_id ELSE NoUser ]

Ids(idx) == {e.chunk_id : e \in idx}

\* VectorDatabase.add_documents: collection.add of a batch.  ChromaDB's add
\* (PersistentClient, 0.4 and later) skips an id that is already stored.
AddDocuments(idx, chunks) ==
    idx \cup {ToEntry(chunks[i]) : i \in {j \in 1..Len(chunks) :
                                          chunks[j].chunk_id \notin Ids(idx)}}

\* The rows collection.get(where=...) selects in delete_document.
MutDeleteFilterDocOnly(idx, document_id, user_id) ==
    {e \in idx : e.document_id = document_id}
DeleteFilter(idx, document_id, user_id) ==
    IF Truthy(user_id)
    THEN {e \in idx : e.document_id = document_id /\ e.user_id = user_id}
    ELSE {e \in idx : e.document_id = document_id}

\* VectorDatabase.delete_document: <<index afterwards, chunks deleted>>
DbDeleteDocument(idx, document_id, user_id) ==
    LET rows == DeleteFilter(idx, document_id, user_id)
    IN  <<idx \ rows, Cardinality(rows)>>

\* The rows a where filter {"user_id": u} selects; a falsy filter selects all.
MutWhereUserAll(idx, user_id) == idx
WhereUser(idx, user_id) ==
    IF Truthy(user_id) THEN {e \in idx : e.user_id = user_id} ELSE idx

\* VectorDatabase.search: collection.query(n_results, where).  nn is the
\* collection in the order of increasing distance to the query vector and
\* dist[i] the distance of nn[i]; the filter selects, the first n_results
\* of the selected rows are returned (as <<entries, distances>>).
DbSearch(idx, n_results, where_user, nn, dist) ==
    LET rows    == WhereUser(idx, where_user)
        Keep(r) == r[1] \in rows
        pairs   == SelectSeq([i \in 1..Len(nn) |-> <<nn[i], dist[i]>>], Keep)
        n       == Min(n_results, Len(pairs))
    IN  <<SubSeq([p \in 1..n |-> pairs[p][1]], 1, n),
          SubSeq([p \in 1..n |-> pairs[p][2]], 1, n)>>

(***************************************************************************)
(* reranker.py                                                             *)
(***************************************************************************)
\* A rational num/den (den > 0) rounded to 4 decimals, in units of 1e-4.
\* No value of the model lies on a rounding tie.
Round4(num, den) == (2 * 10000 * num + den) \div (2 * den)

SeqMin(s) == CHOOSE x \in Range(s) : \A y \in Range(s) : x <= y
SeqMax(s) == CHOOSE x \in Range(s) : \A y \in Range(s) : x >= y

\* The min-max normalization of the raw scores: a sequence of rationals
\* [num, den].
MutNormalizeHalfRange(scores) ==
    LET mn == SeqMin(scores)
        mx == SeqMax(scores)
    IN  IF mx = mn
        THEN [i \in 1..Len(scores) |-> [num |-> 1, den |-> 2]]
        ELSE [i \in 1..Len(scores) |-> [num |-> scores[i] - mn, den |-> 2 * (mx - mn)]]
MutNormalizeByMax(scores) ==
    LET mx == SeqMax(scores)
    IN  [i \in 1..Len(scores) |-> [num |-> scores[i], den |-> Max(mx, 1)]]
Normalize(scores) ==
    LET mn == SeqMin(scores)
        mx == SeqMax(scores)
    IN  IF mx = mn
        THEN [i \in 1..Len(scores) |-> [num |-> 1, den |-> 2]]
        ELSE [i \in 1..Len(scores) |-> [num |-> scores[i] - mn, den |-> mx - mn]]

\* a/b > c/d and a/b = c/d for positive denominators
RatGt(x, y) == x.num * y.den > y.num * x.den
RatEq(x, y) == x.num * y.den = y.num * x.den

\* results.sort(key=score, reverse=True): the stable descending order of
\* the positions 1..Len(norm).
MutSortDescTiesReversed(norm) ==
    LET n == Len(norm)
        Before(j, i) == RatGt(norm[j], norm[i]) \/ (RatEq(norm[j], norm[i]) /\ j > i)
    IN  [p \in 1..n |-> CHOOSE i \in 1..n :
                            Cardinality({j \in 1..n : Before(j, i)}) = p - 1]
MutSortAsc(norm) ==
    LET n == Len(norm)
        Before(j, i) == RatGt(norm[i], norm[j]) \/ (RatEq(norm[j], norm[i]) /\ j < i)
    IN  [p \in 1..n |-> CHOOSE i \in 1..n :
                            Cardinality({j \in 1..n : Before(j, i)}) = p - 1]
SortDesc(norm) ==
    LET n == Len(norm)
        Before(j, i) == RatGt(norm[j], norm[i]) \/ (RatEq(norm[j], norm[i]) /\ j < i)
    IN  [p \in 1..n |-> CHOOSE i \in 1..n :
                            Cardinality({j \in 1..n : Before(j, i)}) = p - 1]

\* Reranker.rerank(query, documents, top_k): scores are the cross-encoder's
\* raw scores of the documents, top_k is Some(k) or Nothing; the result is the sequence of
\* [idx, score] (idx counted from 1), best first.
Rerank(scores, top_k) ==
    IF Len(scores) = 0 THEN <<>>
    ELSE LET norm  == SubSeq(Normalize(scores), 1, Len(scores))
             order == SubSeq(SortDesc(norm), 1, Len(scores))
             all   == SubSeq([p \in 1..Len(scores) |->
                                [idx |-> order[p], score |-> norm[order[p]]]],
                             1, Len(scores))
         IN  IF top_k # Nothing THEN Take(all, top_k[1]) ELSE all

(***************************************************************************)
(* search.py                                                               *)
(***************************************************************************)
\* SearchEngine.__init__(use_reranking); load_ok says whether get_reranker()
\* succeeds.
NewSearchEngine(use_reranking, load_ok) ==
    IF use_reranking
    THEN IF load_ok THEN [use_reranking |-> TRUE, reranker |-> TRUE]
                    ELSE [use_reranking |-> FALSE, reranker |-> FALSE]
    ELSE [use_reranking |-> FALSE, reranker |-> FALSE]

ShouldRerank(engine, use_reranking) ==
    IF use_reranking # Nothing THEN use_reranking[1] ELSE engine.use_reranking

\* retrieval_k = top_k * 3 if should_rerank and self.reranker else top_k
MutRetrievalKTwice(engine, top_k, use_reranking) ==
    IF ShouldRerank(engine, use_reranking) /\ engine.reranker THEN top_k * 2 ELSE top_k
MutRetrievalKIgnoresReranker(engine, top_k, use_reranking) ==
    IF ShouldRerank(engine, use_reranking) THEN top_k * 3 ELSE top_k
RetrievalK(engine, top_k, use_reranking) ==
    IF ShouldRerank(engine, use_reranking) /\ engine.reranker THEN top_k * 3 ELSE top_k

\* The SearchResult built from one row of the index answer.
MutMakeResultDistance(entry, distance) ==
    [ text             |-> entry.text,
      chunk_id         |-> entry.chunk_id,
      document_id      |-> entry.document_id,
      filename         |-> entry.filename,
      page             |-> entry.page,
      total_chunks     |-> entry.total_chunks,
      similarity_score |-> Round4(distance, 100000) ]
MakeResult(entry, distance) ==
    [ text             |-> entry.text,
      chunk_id         |-> entry.chunk_id,
      document_id      |-> entry.document_id,
      filename         |-> entry.filename,
      page             |-> entry.page,
      total_chunks     |-> entry.total_chunks,
      similarity_score |-> Round4(100000 - distance, 100000) ]

\* SearchEngine.search(query, top_k, use_reranking, user_id); use_reranking
\* is Some(bool) or Nothing.  nn, dist are
\* the nearest-neighbour oracle for the query (see DbSearch), raw[i] is the
\* cross-encoder score of the text of nn[i] for the query.
\* predict_ok says whether the cross-encoder's predict call returns; rerank
\* is called without a try, so its exception leaves search.
\* The result is [n_results: the width asked of the index, reranked: whether
\* the reranker was run, raised: whether an exception left search, results:
\* the list returned].
Search(idx, engine, top_k, use_reranking, user_id, nn, dist, raw, predict_ok) ==
    LET should     == ShouldRerank(engine, use_reranking)
        retrieval  == RetrievalK(engine, top_k, use_reranking)
        found      == DbSearch(idx, retrieval, user_id, nn, dist)
        initial    == SubSeq([i \in 1..Len(found[1]) |->
                                MakeResult(found[1][i], found[2][i])], 1, Len(found[1]))
        apply      == should /\ engine.reranker /\ Len(initial) > 0
        rawOf(e)   == raw[CHOOSE i \in 1..Len(nn) : nn[i] = e]
        reranked   == Rerank(SubSeq([i \in 1..Len(initial) |-> rawOf(found[1][i])],
                                    1, Len(initial)), Some(top_k))
    IN  [ n_results |-> retrieval,
          reranked  |-> apply,
          raised    |-> apply /\ ~predict_ok,
          results   |-> IF apply /\ ~predict_ok THEN <<>>
                        ELSE IF apply
                        THEN SubSeq([p \in 1..Len(reranked) |->
                                [initial[reranked[p].idx] EXCEPT !.similarity_score =
                                    Round4(reranked[p].score.num, reranked[p].score.den)]],
                                    1, Len(reranked))
                        ELSE Take(initial, top_k) ]

(***************************************************************************)
(* synthesis.py                                                            *)
(***************************************************************************)
ErrNoKey == "Error: Groq API key not configured. Please set GROQ_API_KEY environment variable."
NoInfo == "No relevant information found to answer your question."
ErrGenerating == "Error generating answer: <exception>"
Completion == "<completion text>"

\* AnswerSynthesizer.__init__: the client exists iff GROQ_API_KEY is set.
NewSynthesizer(api_key) == [client |-> Truthy(api_key)]

\* The numbered source blocks of the prompt: enumerate(search_results[:5], 1)
MaxContext == 5
MutContextAll(results) ==
    [i \in 1..Len(results) |->
        [ source |-> i, filename |-> results[i].filename,
          page |-> results[i].page, text |-> results[i].text ]]
Context(results) ==
    [i \in 1..Min(MaxContext, Len(results)) |->
        [ source |-> i, filename |-> results[i].filename,
          page |-> results[i].page, text |-> results[i].text ]]

\* AnswerSynthesizer.synthesize(query, search_results).  oracle is what the
\* completion call does: "ok" (returns text) or "raises".
\* The result is [answer, called: whether the completion API was called,
\* raised: whether an exception left synthesize, context: the source blocks].
MutSynthesizePropagates(synth, results, oracle) ==
    IF ~synth.client
    THEN [answer |-> ErrNoKey, called |-> FALSE, raised |-> FALSE, context |-> <<>>]
    ELSE IF Len(results) = 0
    THEN [answer |-> NoInfo, called |-> FALSE, raised |-> FALSE, context |-> <<>>]
    ELSE [answer |-> IF oracle = "ok" THEN Completion ELSE None,
          called |-> TRUE, raised |-> oracle # "ok", context |-> Context(results)]
MutSynthesizeCallsFirst(synth, results, oracle) ==
    IF ~synth.client
    THEN [answer |-> ErrNoKey, called |-> FALSE, raised |-> FALSE, context |-> <<>>]
    ELSE [answer |-> IF Len(results) = 0 THEN NoInfo
                     ELSE IF oracle = "ok" THEN Completion ELSE ErrGenerating,
          called |-> TRUE, raised |-> FALSE, context |-> Context(results)]
Synthesize(synth, results, oracle) ==
    IF ~synth.client
    THEN [answer |-> ErrNoKey, called |-> FALSE, raised |-> FALSE, context |-> <<>>]
    ELSE IF Len(results) = 0
    THEN [answer |-> NoInfo, called |-> FALSE, raised |-> FALSE, context |-> <<>>]
    ELSE [answer |-> IF oracle = "ok" THEN Completion ELSE ErrGenerating,
          called |-> TRUE, raised |-> FALSE, context |-> Context(results)]

(***************************************************************************)
(* database.py / main.py: listing and reading documents.                   *)
(***************************************************************************)
\* VectorDatabase.get_all_documents(where): one DocumentInfo per document id
\* among the selected rows, taken from the row of that document that
\* collection.get returns first; first[d] is that row.  where_user = None
\* stands for where=None.  row_user records the owner of the row used.
GetRows(idx, where_user) ==
    IF where_user = None THEN idx ELSE {e \in idx : e.user_id = where_user}
GetAllDocuments(idx, where_user, first) ==
    { [ document_id  |-> first[d].document_id,
        filename     |-> first[d].filename,
        total_chunks |-> first[d].total_chunks,
        row_user     |-> first[d].user_id ] : d \in DOMAIN first }

\* The choices of the first row per document among rows.
FirstRows(rows) ==
    {f \in [{e.document_id : e \in rows} -> rows] :
        \A d \in DOMAIN f : f[d].document_id = d}

\* The rows get_document_text reads: document_id = d AND user_id = u.
TextRows(idx, document_id, user_id) ==
    {e \in idx : e.document_id = document_id /\ e.user_id = user_id}

\* The chunk list of get_document_text, sorted by chunk index.
TextChunks(rows) ==
    LET n == Cardinality(rows)
    IN  [p \in 1..n |->
            LET e == CHOOSE e \in rows :
                        Cardinality({x \in rows : x.chunk_id[2] < e.chunk_id[2]}) = p - 1
            IN  [chunk_id |-> e.chunk_id, text |-> e.text, page |-> e.page,
                 chunk_index |-> e.chunk_id[2]]]

(***************************************************************************)
(* The server: requests of authenticated users against one index.          *)
(***************************************************************************)
Owners == {"alice", "bob"}
\* The uploads considered: <<filename, clock reading of datetime.now()>>.
\* Two uploads of one name may read the same clock value.
UploadKeys == {<<"a.pdf", 1>>, <<"b.pdf", 2>>}
DocIds == {GenerateDocumentId(k[1], k[2]) : k \in UploadKeys}
WordCounts == {0, 200, 400}
PageCounts == {2}
Faults == {"none", "extract", "embed"}
MaxIndex == 3
TopKs == {1, 2}

\* The oracles of the server runs: two queries.  For "q1" the distance of a
\* chunk grows with its key and the cross-encoder scores differ; for "q2"
\* the distance falls with the key and all cross-encoder scores are equal.
Queries == {"q1", "q2"}
ChunkKey(chunk_id) ==
    (IF chunk_id[1][1] = "a.pdf" THEN 0 ELSE 20) + 4 * chunk_id[1][2] + chunk_id[2]
QueryDistance(q, chunk_id) ==
    IF q = "q1" THEN 10000 + 3000 * ChunkKey(chunk_id)
    ELSE 130004 - 3000 * ChunkKey(chunk_id)
QueryRaw(q, chunk_id) == IF q = "q1" THEN (ChunkKey(chunk_id) % 4) - 1 ELSE 2
RECURSIVE NNOrder(_, _)
NNOrder(q, idx) ==
    IF idx = {} THEN <<>>
    ELSE LET nearest == CHOOSE e \in idx : \A x \in idx :
                            QueryDistance(q, e.chunk_id) <= QueryDistance(q, x.chunk_id)
         IN  <<nearest>> \o NNOrder(q, idx \ {nearest})
RECURSIVE DistOf(_, _)
DistOf(q, nn) ==
    IF nn = <<>> THEN <<>>
    ELSE <<QueryDistance(q, Head(nn).chunk_id)>> \o DistOf(q, Tail(nn))
RECURSIVE RawOf(_, _)
RawOf(q, nn) ==
    IF nn = <<>> THEN <<>>
    ELSE <<QueryRaw(q, Head(nn).chunk_id)>> \o RawOf(q, Tail(nn))

Idle == [op |-> "none"]

\* POST /upload of a PDF whose extraction yields total_words words on
\* total_pages pages.  Every exception raised inside the handler's try block,
\* the HTTPException(400) of the zero-chunk check included, is caught by its
\* `except Exception` and answered as HTTPException(500).  The response
\* records the extracted word count and the injected fault.
MutUploadWritesBeforeEmbedding(user_id, filename, now, total_words, total_pages, fault) ==
    LET chunks == ProcessPdf(filename, user_id, now, total_words, total_pages)
        failed(detail) == [op |-> "upload", user_id |-> user_id, status |-> 500,
                           detail |-> detail, total_words |-> total_words,
                           fault |-> fault]
    IN  /\ Cardinality(AddDocuments(index, chunks)) <= MaxIndex
        /\ IF fault = "extract"
           THEN resp' = failed("extraction failed") /\ index' = index
           ELSE IF Len(chunks) = 0
           THEN resp' = failed("400: No text extracted from PDF") /\ index' = index
           ELSE IF fault = "embed"
           THEN resp' = failed("embedding failed") /\ index' = AddDocuments(index, chunks)
           ELSE /\ index' = AddDocuments(index, chunks)
                /\ resp' = [op |-> "upload", user_id |-> user_id, status |-> 200,
                            document_id |-> chunks[1].document_id,
                            total_chunks |-> Len(chunks),
                            total_words |-> total_words, fault |-> fault]
        /\ UNCHANGED <<search_engine, load_attempts, synthesizer, environ, pc, inp, out>>
Upload(user_id, filename, now, total_words, total_pages, fault) ==
    LET chunks == ProcessPdf(filename, user_id, now, total_words, total_pages)
        failed(detail) == [op |-> "upload", user_id |-> user_id, status |-> 500,
                           detail |-> detail, total_words |-> total_words,
                           fault |-> fault]
    IN  /\ Cardinality(AddDocuments(index, chunks)) <= MaxIndex
        /\ IF fault = "extract"
           THEN resp' = failed("extraction failed") /\ index' = index
           ELSE IF Len(chunks) = 0
           THEN resp' = failed("400: No text extracted from PDF") /\ index' = index
           ELSE IF fault = "embed"
           THEN resp' = failed("embedding failed") /\ index' = index
           ELSE /\ index' = AddDocuments(index, chunks)
                /\ resp' = [op |-> "upload", user_id |-> user_id, status |-> 200,
                            document_id |-> chunks[1].document_id,
                            total_chunks |-> Len(chunks),
                            total_words |-> total_words, fault |-> fault]
        /\ UNCHANGED <<search_engine, load_attempts, synthesizer, environ, pc, inp, out>>

\* DELETE /documents/{document_id}
DeleteDocument(user_id, document_id) ==
    LET res == DbDeleteDocument(index, document_id, user_id)
    IN  /\ index' = res[1]
        /\ resp' = IF res[2] = 0
                   THEN [op |-> "delete", user_id |-> user_id,
                         document_id |-> document_id, status |-> 404]
                   ELSE [op |-> "delete", user_id |-> user_id,
                         document_id |-> document_id, status |-> 200,
                         chunks_deleted |-> res[2]]
        /\ UNCHANGED <<search_engine, load_attempts, synthesizer, environ, pc, inp, out>>

\* GET /documents
ListDocuments(user_id) ==
    \E first \in FirstRows(GetRows(index, user_id)) :
        /\ resp' = [op |-> "list", user_id |-> user_id, status |-> 200,
                    documents |-> GetAllDocuments(index, user_id, first)]
        /\ UNCHANGED <<index, search_engine, load_attempts, synthesizer, environ, pc, inp, out>>

\* GET /documents/{document_id}/text
GetDocumentText(user_id, document_id) ==
    LET rows == TextRows(index, document_id, user_id)
    IN  /\ resp' = IF rows = {}
                   THEN [op |-> "text", user_id |-> user_id,
                         document_id |-> document_id, status |-> 404]
                   ELSE [op |-> "text", user_id |-> user_id,
                         document_id |-> document_id, status |-> 200,
                         total_chunks |-> Cardinality(rows),
                         chunks |-> TextChunks(rows)]
        /\ UNCHANGED <<index, search_engine, load_attempts, synthesizer, environ, pc, inp, out>>

\* POST /search.  get_search_engine() and get_synthesizer() build their
\* instance on first use; load_ok, oracle, nn, dist, raw, predict_ok are what
\* the reranker loader, the completion API and the two scoring models answer.
\* An exception of search or synthesize is answered as HTTPException(500).
MutSearchDocumentsAlwaysSynthesizes(user_id, query, top_k, use_reranking, synthesize_answer, load_ok, oracle, nn, dist, raw, predict_ok) ==
    LET engine == IF search_engine = Nothing THEN NewSearchEngine(TRUE, load_ok)
                  ELSE search_engine
        found  == Search(index, engine, top_k, Some(use_reranking), user_id, nn, dist,
                         raw, predict_ok)
        wanted == ~found.raised /\ synthesize_answer
        synth  == IF synthesizer = Nothing THEN NewSynthesizer(environ.GROQ_API_KEY)
                  ELSE synthesizer
        syn    == Synthesize(synth, found.results, oracle)
    IN  /\ search_engine' = engine
        /\ load_attempts' = IF search_engine = Nothing THEN load_attempts + 1
                            ELSE load_attempts
        /\ synthesizer' = IF wanted THEN synth ELSE synthesizer
        /\ resp' = IF found.raised \/ (wanted /\ syn.raised)
                   THEN [op |-> "search", user_id |-> user_id, status |-> 500,
                         query |-> query, top_k |-> top_k,
                         synthesize_answer |-> synthesize_answer, oracle |-> oracle,
                         rerank_raised |-> found.raised]
                   ELSE [op |-> "search", user_id |-> user_id, status |-> 200,
                         query |-> query, oracle |-> oracle, rerank_raised |-> FALSE,
                         top_k |-> top_k, use_reranking |-> Some(use_reranking),
                         n_results |-> found.n_results, reranked |-> found.reranked,
                         results |-> found.results,
                         synthesize_answer |-> synthesize_answer,
                         synthesized_answer |-> IF wanted THEN syn.answer ELSE None,
                         oracle_called |-> wanted /\ syn.called]
        /\ UNCHANGED <<index, environ, pc, inp, out>>
SearchDocuments(user_id, query, top_k, use_reranking, synthesize_answer, load_ok, oracle, nn, dist, raw, predict_ok) ==
    LET engine == IF search_engine = Nothing THEN NewSearchEngine(TRUE, load_ok)
                  ELSE search_engine
        found  == Search(index, engine, top_k, Some(use_reranking), user_id, nn, dist,
                         raw, predict_ok)
        wanted == ~found.raised /\ synthesize_answer /\ Len(found.results) > 0
        synth  == IF synthesizer = Nothing THEN NewSynthesizer(environ.GROQ_API_KEY)
                  ELSE synthesizer
        syn    == Synthesize(synth, found.results, oracle)
    IN  /\ search_engine' = engine
        /\ load_attempts' = IF search_engine = Nothing THEN load_attempts + 1
                            ELSE load_attempts
        /\ synthesizer' = IF wanted THEN synth ELSE synthesizer
        /\ resp' = IF found.raised \/ (wanted /\ syn.raised)
                   THEN [op |-> "search", user_id |-> user_id, status |-> 500,
                         query |-> query, top_k |-> top_k,
                         synthesize_answer |-> synthesize_answer, oracle |-> oracle,
                         rerank_raised |-> found.raised]
                   ELSE [op |-> "search", user_id |-> user_id, status |-> 200,
                         query |-> query, oracle |-> oracle, rerank_raised |-> FALSE,
                         top_k |-> top_k, use_reranking |-> Some(use_reranking),
                         n_results |-> found.n_results, reranked |-> found.reranked,
                         results |-> found.results,
                         synthesize_answer |-> synthesize_answer,
                         synthesized_answer |-> IF wanted THEN syn.answer ELSE None,
                         oracle_called |-> wanted /\ syn.called]
        /\ UNCHANGED <<index, environ, pc, inp, out>>

Init ==
    /\ index = {}
    /\ resp = Idle
    /\ search_engine = Nothing
    /\ load_attempts = 0
    /\ synthesizer = Nothing
    /\ environ = [GROQ_API_KEY |-> "gsk"]
    /\ pc = "server"
    /\ inp = Nothing
    /\ out = Nothing

DoUpload ==
    \E u \in Owners, k \in UploadKeys, w \in WordCounts,
       p \in PageCounts, fault \in Faults : Upload(u, k[1], k[2], w, p, fault)
DoDelete == \E u \in Owners, d \in DocIds : DeleteDocument(u, d)
DoList == \E u \in Owners : ListDocuments(u)
DoText == \E u \in Owners, d \in DocIds : GetDocumentText(u, d)
DoSearch ==
    \E u \in Owners, k \in TopKs, rr \in BOOLEAN, ok \in BOOLEAN, q \in Queries :
        \E nn \in {NNOrder(q, index)} :
            SearchDocuments(u, q, k, rr, FALSE, ok, "ok",
                            nn, DistOf(q, nn), RawOf(q, nn), TRUE)

Next == DoUpload \/ DoDelete \/ DoList \/ DoText \/ DoSearch

Spec == Init /\ [][Next]_vars

(***************************************************************************)
(* Properties of the server (specification Spec).                          *)
(***************************************************************************)
StoredOwner(chunk_id) == (CHOOSE e \in index : e.chunk_id = chunk_id).user_id

\* C1: owner isolation on every read path.  Whatever uploads and deletes
\* came before, a search, a listing or a text read issued for owner A
\* returns only chunks (documents built from rows) whose stored user_id is A.
OwnerIsolation ==
    /\ (resp.op = "search" /\ resp.status = 200) =>
          \A i \in 1..Len(resp.results) :
              /\ resp.results[i].chunk_id \in Ids(index)
              /\ StoredOwner(resp.results[i].chunk_id) = resp.user_id
    /\ resp.op = "list" =>
          \A d \in resp.documents : d.row_user = resp.user_id
    /\ (resp.op = "text" /\ resp.status = 200) =>
          \A i \in 1..Len(resp.chunks) :
              /\ resp.chunks[i].chunk_id \in Ids(index)
              /\ StoredOwner(resp.chunks[i].chunk_id) = resp.user_id

\* C1 witness: a search answered with results while the index also holds a
\* chunk of the other owner.
OwnerIsolationWitness ==
    /\ resp.op = "search"
    /\ resp.status = 200
    /\ Len(resp.results) > 0
    /\ \E e \in index : e.user_id # resp.user_id

\* C2 as claimed: a delete by the owner right after their successful upload
\* of n chunks under document id D returns n, and a search of that owner
\* right after the delete returns no result of D.
RoundTrip ==
    /\ [][ ( /\ resp.op = "upload" /\ resp.status = 200
             /\ resp'.op = "delete"
             /\ resp'.user_id = resp.user_id
             /\ resp'.document_id = resp.document_id )
           => (resp'.status = 200 /\ resp'.chunks_deleted = resp.total_chunks) ]_vars
    /\ [][ ( /\ resp.op = "delete" /\ resp.status = 200
             /\ resp'.op = "search" /\ resp'.status = 200
             /\ resp'.user_id = resp.user_id )
           => \A i \in 1..Len(resp'.results) :
                  resp'.results[i].document_id # resp.document_id ]_vars

\* C3: DELETE /documents/D by owner A removes exactly the rows with
\* document_id D and user_id A and nothing else; it answers 200 with their
\* number, or 404 (and removes nothing) when there is no such row, also when
\* D is stored for another owner.
OwnerScopedDeleteExact ==
    [][ resp'.op = "delete" =>
          LET rows == {e \in index : e.document_id = resp'.document_id
                                     /\ e.user_id = resp'.user_id}
          IN  /\ index' = index \ rows
              /\ rows = {} => (resp'.status = 404 /\ index' = index)
              /\ rows # {} => (resp'.status = 200
                               /\ resp'.chunks_deleted = Cardinality(rows)) ]_vars

\* C3 witness: a delete of a document stored for another owner was answered
\* 404 and the other owner's rows are still there.
OwnerScopedDeleteWitness ==
    /\ resp.op = "delete"
    /\ resp.status = 404
    /\ \E e \in index : e.document_id = resp.document_id /\ e.user_id # resp.user_id

\* C11 as claimed: an upload whose document has zero extracted words (and
\* no extraction fault) is answered with the client-facing status 400 of the
\* zero-chunk check, not with 500.
ZeroWordsIs400 ==
    (resp.op = "upload" /\ resp.fault = "none" /\ resp.total_words = 0)
        => resp.status = 400

\* C21: an upload whose extraction raises, that yields zero chunks, or whose
\* embedding raises ends in an error response and leaves the index as it was.
FailedIngestionWritesNothing ==
    [][ ( /\ resp'.op = "upload"
          /\ (resp'.fault # "none" \/ resp'.total_words = 0) )
        => (resp'.status >= 400 /\ index' = index) ]_vars

\* C21 witness: an upload failed in embedding while the index held other
\* documents, and the index holds no chunk of the failed upload's owner.
FailedIngestionWitness ==
    /\ resp.op = "upload"
    /\ resp.fault = "embed"
    /\ resp.total_words > 0
    /\ resp.status = 500
    /\ index # {}
    /\ \A e \in index : e.user_id # resp.user_id

\* C22 as claimed: for every document id in the index, all stored chunks of
\* it carry the same total_chunks, that value is the number of stored chunks
\* of the document, and their ordinals are exactly 0..total_chunks-1.
DocumentComplete ==
    \A d \in {e.document_id : e \in index} :
        LET rows == {e \in index : e.document_id = d}
        IN  /\ \A e \in rows : e.total_chunks = Cardinality(rows)
            /\ {e.chunk_id[2] : e \in rows} = 0..(Cardinality(rows) - 1)

\* C26 as claimed: an upload is assigned a document id that no earlier
\* ingestion was assigned, so none of the chunks already in the index carries
\* the document id of a new upload.
DocumentIdsUnique ==
    [][ (resp'.op = "upload" /\ resp'.status = 200)
        => \A e \in index : e.document_id # resp'.document_id ]_vars

(***************************************************************************)
(* The chunker alone (specification SpecChunk): one run of _create_chunks  *)
(* of a processor DocumentProcessor(chunk_size, chunk_overlap) on a text   *)
(* of total_words words and total_pages pages.                             *)
(***************************************************************************)
MaxWords == 12
MaxChunkSize == 4
MaxPages == 3

\* Sparse scans: many pages with few words each.
SparseScans ==
    { [total_words |-> 330, total_pages |-> 22],
      [total_words |-> 660, total_pages |-> 22] }

\* The configurations with 0 <= chunk_overlap < chunk_size, the default
\* processor on a text of 600 words, and the default processor on sparse
\* scans.
ChunkInputs ==
    { [total_words |-> w, chunk_size |-> c, chunk_overlap |-> o, total_pages |-> p] :
        w \in 0..MaxWords, c \in 1..MaxChunkSize, o \in 0..(MaxChunkSize - 1),
        p \in 1..MaxPages }
    \cup { [total_words |-> 600, chunk_size |-> DefaultChunkSize,
            chunk_overlap |-> DefaultChunkOverlap, total_pages |-> p] :
            p \in 1..MaxPages }
    \cup { [total_words |-> d.total_words, chunk_size |-> DefaultChunkSize,
            chunk_overlap |-> DefaultChunkOverlap, total_pages |-> d.total_pages] :
            d \in SparseScans }

InitChunk ==
    /\ index = {}
    /\ resp = Idle
    /\ search_engine = Nothing
    /\ load_attempts = 0
    /\ synthesizer = Nothing
    /\ environ = [GROQ_API_KEY |-> None]
    /\ pc = "ready"
    /\ inp \in {i \in ChunkInputs : i.chunk_overlap < i.chunk_size}
    /\ out = Nothing

RunCreateChunks ==
    /\ pc = "ready"
    /\ out' = CreateChunks(inp.total_words, GenerateDocumentId("a.pdf", 1), "a.pdf",
                           "alice", inp.total_pages, inp.chunk_size, inp.chunk_overlap)
    /\ pc' = "done"
    /\ UNCHANGED <<index, resp, search_engine, load_attempts, synthesizer, environ, inp>>

NextChunk == RunCreateChunks

SpecChunk == InitChunk /\ [][NextChunk]_vars

\* C4: the first chunk starts at word 0, the k-th chunk starts exactly
\* chunk_size - chunk_overlap words after the one before, and every chunk's
\* total_chunks is the number of chunks returned; 600 words with the
\* default 250/25 give the starts 0, 225, 450 and total_chunks 3.
ChunkStarts ==
    pc = "done" =>
        /\ \A k \in 1..Len(out) :
              /\ out[k].text[1] = (k - 1) * (inp.chunk_size - inp.chunk_overlap)
              /\ out[k].total_chunks = Len(out)
        /\ (inp.total_words = 600 /\ inp.chunk_size = 250 /\ inp.chunk_overlap = 25) =>
              /\ [k \in 1..Len(out) |-> out[k].text[1]] = <<0, 225, 450>>
              /\ \A k \in 1..Len(out) : out[k].total_chunks = 3

\* C4 witness: the 600-word text was chunked into three chunks.
ChunkStartsWitness ==
    pc = "done" /\ inp.total_words = 600 /\ Len(out) = 3

\* C5 as claimed: the number of chunks is ceil(max(W - O, 0) / (C - O)).
ChunkCountAsClaimed ==
    pc = "done" =>
        Len(out) = CeilDiv(Max(inp.total_words - inp.chunk_overlap, 0),
                           inp.chunk_size - inp.chunk_overlap)

\* C5 amended: the number of chunks is ceil(W / (C - O)).
ChunkCount ==
    pc = "done" =>
        Len(out) = CeilDiv(inp.total_words, inp.chunk_size - inp.chunk_overlap)

\* C5 witness: a run on which the two counts differ (the last window starts
\* within the overlap of the one before).
ChunkCountWitness ==
    /\ pc = "done"
    /\ inp.chunk_overlap > 0
    /\ Len(out) > CeilDiv(Max(inp.total_words - inp.chunk_overlap, 0),
                          inp.chunk_size - inp.chunk_overlap)

\* The page the interpolation formula gives in exact arithmetic.
ExactPage(word_position, total_words, total_pages) ==
    Min(((word_position * total_pages) \div total_words) + 1, total_pages)

\* C23 as claimed: every chunk's page is floor((window_start / total_words)
\* * total_pages) + 1 capped at total_pages, and lies in [1, total_pages].
PageAsClaimed ==
    pc = "done" =>
        \A k \in 1..Len(out) :
            /\ out[k].page = ExactPage(out[k].text[1], inp.total_words, inp.total_pages)
            /\ out[k].page \in 1..inp.total_pages

\* C24: within the chunks of one document the page never decreases as the
\* ordinal increases.
PageMonotone ==
    pc = "done" =>
        \A i \in 1..Len(out) : \A j \in i..Len(out) : out[i].page <= out[j].page

\* C24 witness: a document of at least three chunks whose pages increase,
\* one of them below the page of the exact formula.
PageMonotoneWitness ==
    /\ pc = "done"
    /\ Len(out) >= 3
    /\ out[1].page < out[2].page
    /\ out[2].page < out[3].page
    /\ \E k \in 1..Len(out) :
          out[k].page < ExactPage(out[k].text[1], inp.total_words, inp.total_pages)

\* C25: the k-th chunk produced (k = 1..n) has ordinal k - 1 and the
\* identifier made of the document id and that ordinal, and no two chunks of
\* the run have the same identifier.
OrdinalsDense ==
    pc = "done" =>
        /\ \A k \in 1..Len(out) :
              out[k].chunk_id = <<GenerateDocumentId("a.pdf", 1), k - 1>>
        /\ \A i \in 1..Len(out) : \A j \in 1..Len(out) :
              out[i].chunk_id = out[j].chunk_id => i = j

\* C25 witness: a run that produced several chunks.
OrdinalsDenseWitness ==
    pc = "done" /\ Len(out) >= 4 /\ out[4].chunk_id[2] = 3

\* C27: _create_chunks ends after exactly ceil(W / (C - O)) iterations (one
\* chunk each), every chunk is a non-empty window of at most chunk_size
\* words of the text, and every word of the text lies in some chunk.
ChunkerShape ==
    pc = "done" =>
        /\ Len(out) = CeilDiv(inp.total_words, inp.chunk_size - inp.chunk_overlap)
        /\ \A k \in 1..Len(out) :
              /\ 0 <= out[k].text[1]
              /\ out[k].text[1] < out[k].text[2]
              /\ out[k].text[2] <= inp.total_words
              /\ out[k].text[2] - out[k].text[1] <= inp.chunk_size
        /\ \A w \in 0..(inp.total_words - 1) :
              \E k \in 1..Len(out) : out[k].text[1] <= w /\ w < out[k].text[2]

\* C27 witness: the final chunk lies entirely inside the window of the
\* chunk before it.
ChunkerShapeWitness ==
    /\ pc = "done"
    /\ Len(out) >= 2
    /\ out[Len(out)].text[1] >= out[Len(out) - 1].text[1]
    /\ out[Len(out)].text[2] <= out[Len(out) - 1].text[2]

(***************************************************************************)
(* The reranker alone (specification SpecRerank): one call of              *)
(* Reranker.rerank on the raw scores of the candidates.                    *)
(***************************************************************************)
MaxCandidates == 3
RawScores == {-7, -2, 0, 3}

RerankInputs ==
    { [scores |-> sc, top_k |-> k] :
        sc \in UNION {[1..n -> RawScores] : n \in 1..MaxCandidates},
        k \in {Nothing} \cup {Some(n) : n \in 1..MaxCandidates} }

InitRerank ==
    /\ index = {}
    /\ resp = Idle
    /\ search_engine = Nothing
    /\ load_attempts = 0
    /\ synthesizer = Nothing
    /\ environ = [GROQ_API_KEY |-> None]
    /\ pc = "ready"
    /\ inp \in RerankInputs
    /\ out = Nothing

RunRerank ==
    /\ pc = "ready"
    /\ out' = Rerank(inp.scores, inp.top_k)
    /\ pc' = "done"
    /\ UNCHANGED <<index, resp, search_engine, load_attempts, synthesizer, environ, inp>>

NextRerank == RunRerank

SpecRerank == InitRerank /\ [][NextRerank]_vars

\* C7: candidate i gets (s_i - min) / (max - min) when max # min and 0.5
\* when all raw scores are equal; every returned score lies in [0, 1].
RerankNormalization ==
    pc = "done" =>
        LET mn == SeqMin(inp.scores)
            mx == SeqMax(inp.scores)
        IN  \A p \in 1..Len(out) :
                LET i == out[p].idx
                    x == out[p].score
                IN  /\ x.den > 0
                    /\ mx # mn => x.num * (mx - mn) = (inp.scores[i] - mn) * x.den
                    /\ mx = mn => 2 * x.num = x.den
                    /\ 0 <= x.num /\ x.num <= x.den

\* C7 witness: negative and positive raw scores were normalized.
RerankNormalizationWitness ==
    /\ pc = "done"
    /\ Len(out) = MaxCandidates
    /\ SeqMin(inp.scores) < 0
    /\ SeqMax(inp.scores) > 0

\* C29: the first result of a rerank has the score 1 when the raw scores
\* are not all equal and the score 1/2 when they are (a single candidate
\* included), whatever the raw scores are.
RerankTopScore ==
    (pc = "done" /\ Len(out) >= 1) =>
        IF SeqMax(inp.scores) # SeqMin(inp.scores)
        THEN out[1].score.num = out[1].score.den
        ELSE 2 * out[1].score.num = out[1].score.den

\* C29 witness: every candidate has a negative raw score, not all the same,
\* and the first result has the score 1.
RerankTopScoreWitness ==
    /\ pc = "done"
    /\ Len(inp.scores) >= 2
    /\ SeqMax(inp.scores) < 0
    /\ SeqMax(inp.scores) # SeqMin(inp.scores)
    /\ out[1].score.num = out[1].score.den

(***************************************************************************)
(* Search and synthesis over a fixed index (specification SpecSearch):     *)
(* POST /search, direct calls of get_search_engine().search(...) and of    *)
(* get_synthesizer().synthesize(...), in a process that starts with        *)
(* neither instance built.                                                 *)
(***************************************************************************)
SampleAlice == ProcessPdf("a.pdf", "alice", 1, 900, 3)
SampleBob == ProcessPdf("b.pdf", "bob", 2, 400, 2)
SampleIndexes == { {}, AddDocuments(AddDocuments({}, SampleAlice), SampleBob) }
SearchTopKs == {1, 5}
ApiKeys == {None, "gsk"}
OracleOutcomes == {"ok", "raises"}

\* get_search_engine().search(query, top_k, use_reranking, user_id)
EngineSearch(user_id, query, top_k, use_reranking, load_ok, nn, dist, raw, predict_ok) ==
    LET engine == IF search_engine = Nothing THEN NewSearchEngine(TRUE, load_ok)
                  ELSE search_engine
        found  == Search(index, engine, top_k, use_reranking, user_id, nn, dist,
                         raw, predict_ok)
    IN  /\ search_engine' = engine
        /\ load_attempts' = IF search_engine = Nothing THEN load_attempts + 1
                            ELSE load_attempts
        /\ resp' = IF found.raised
                   THEN [op |-> "engine_search", user_id |-> user_id, status |-> 500,
                         query |-> query, top_k |-> top_k, rerank_raised |-> TRUE]
                   ELSE [op |-> "engine_search", user_id |-> user_id, status |-> 200,
                         query |-> query, top_k |-> top_k,
                         use_reranking |-> use_reranking, rerank_raised |-> FALSE,
                         n_results |-> found.n_results, reranked |-> found.reranked,
                         results |-> found.results]
        /\ UNCHANGED <<index, synthesizer, environ, pc, inp, out>>

\* get_synthesizer().synthesize(query, results)
SynthesizeCall(results, oracle) ==
    LET synth == IF synthesizer = Nothing THEN NewSynthesizer(environ.GROQ_API_KEY)
                 ELSE synthesizer
        syn   == Synthesize(synth, results, oracle)
    IN  /\ synthesizer' = synth
        /\ resp' = [op |-> "synthesize", status |-> IF syn.raised THEN 500 ELSE 200,
                    results |-> results, oracle |-> oracle,
                    answer |-> syn.answer, oracle_called |-> syn.called,
                    context |-> syn.context]
        /\ UNCHANGED <<index, search_engine, load_attempts, environ, pc, inp, out>>

InitSearch ==
    /\ index \in SampleIndexes
    /\ resp = Idle
    /\ search_engine = Nothing
    /\ load_attempts = 0
    /\ synthesizer = Nothing
    /\ environ \in {[GROQ_API_KEY |-> k] : k \in ApiKeys}
    /\ pc = "server"
    /\ inp = Nothing
    /\ out = Nothing

\* The search results for a query before any filter, cut or reranking.
RECURSIVE AllResults(_, _)
AllResults(nn, dist) ==
    IF nn = <<>> THEN <<>>
    ELSE <<MakeResult(Head(nn), Head(dist))>> \o AllResults(Tail(nn), Tail(dist))

DoSearchDocuments ==
    \E q \in Queries : \E nn \in {NNOrder(q, index)} :
    \E u \in Owners, k \in SearchTopKs, rr \in BOOLEAN, sy \in BOOLEAN,
       ok \in BOOLEAN, oracle \in OracleOutcomes, predict_ok \in BOOLEAN :
        SearchDocuments(u, q, k, rr, sy, ok, oracle, nn, DistOf(q, nn), RawOf(q, nn),
                        predict_ok)
DoEngineSearch ==
    \E q \in Queries : \E nn \in {NNOrder(q, index)} :
    \E u \in Owners \cup {None, Empty}, k \in SearchTopKs,
       rr \in {Nothing, Some(TRUE), Some(FALSE)}, ok \in BOOLEAN, predict_ok \in BOOLEAN :
        EngineSearch(u, q, k, rr, ok, nn, DistOf(q, nn), RawOf(q, nn), predict_ok)
DoSynthesize ==
    \E q \in Queries : \E nn \in {NNOrder(q, index)} :
    \E n \in 0..Len(nn), oracle \in OracleOutcomes :
        SynthesizeCall(Take(AllResults(nn, DistOf(q, nn)), n), oracle)

NextSearch == DoSearchDocuments \/ DoEngineSearch \/ DoSynthesize

SpecSearch == InitSearch /\ [][NextSearch]_vars

\* C6: the width asked of the index is top_k * 3 when reranking is requested
\* for the call (by the argument, or by the engine default when the argument
\* is None) and a reranker is loaded, and top_k in every other case.
RetrievalWidth ==
    (resp.op \in {"search", "engine_search"} /\ resp.status = 200) =>
        LET requested == \/ resp.use_reranking = Some(TRUE)
                         \/ (resp.use_reranking = Nothing /\ search_engine.use_reranking)
        IN  resp.n_results = IF requested /\ search_engine.reranker
                             THEN 3 * resp.top_k ELSE resp.top_k

\* C6 witness: top_k = 5 with the reranker loaded asked the index for 15.
RetrievalWidthWitness ==
    /\ resp.op = "search"
    /\ resp.status = 200
    /\ resp.top_k = 5
    /\ search_engine.reranker
    /\ resp.n_results = 15

LoadFailed == search_engine # Nothing /\ ~search_engine.reranker

\* C8: once loading the reranker has failed at construction of the
\* SearchEngine, the engine is never rebuilt and the load never retried, and
\* every search (also with use_reranking = True) succeeds, asks the index
\* for top_k rows and returns them in similarity order with similarity
\* scores.
LoadFailurePermanent ==
    /\ [][LoadFailed => (search_engine' = search_engine
                         /\ load_attempts' = load_attempts)]_vars
    /\ [](( LoadFailed /\ resp.op \in {"search", "engine_search"} ) =>
            LET Mine(e) == ~Truthy(resp.user_id) \/ e.user_id = resp.user_id
                mine    == SelectSeq(NNOrder(resp.query, index), Mine)
            IN  /\ resp.status = 200
                /\ load_attempts = 1
                /\ resp.n_results = resp.top_k
                /\ ~resp.reranked
                /\ Len(resp.results) = Min(resp.top_k, Len(mine))
                /\ \A i \in 1..Len(resp.results) :
                      /\ resp.results[i].chunk_id = mine[i].chunk_id
                      /\ resp.results[i].similarity_score =
                            Round4(100000 - QueryDistance(resp.query, mine[i].chunk_id),
                                   100000))

\* C8 witness: a search that asked for reranking was answered by the engine
\* whose reranker failed to load.
LoadFailurePermanentWitness ==
    /\ LoadFailed
    /\ resp.op = "search"
    /\ resp.use_reranking = Some(TRUE)
    /\ Len(resp.results) > 1

\* The search step of the request returned its results and the completion
\* oracle is misconfigured or raises.
OracleFails ==
    /\ ~resp.rerank_raised
    /\ (~Truthy(environ.GROQ_API_KEY) \/ resp.oracle = "raises")

\* C9 as claimed: a search that asks for synthesis while the completion
\* oracle is misconfigured or raises answers 200 with an error string as the
\* answer.
SynthesisFailureAsClaimed ==
    (resp.op = "search" /\ resp.synthesize_answer /\ OracleFails) =>
        /\ resp.status = 200
        /\ resp.synthesized_answer \in {ErrNoKey, ErrGenerating}

\* C9 amended: such a search answers 200 with its results; the answer is the
\* error string when the search returned at least one result, and null when
\* it returned none (the synthesizer is then not invoked).
SynthesisFailureContained ==
    (resp.op = "search" /\ resp.synthesize_answer /\ OracleFails) =>
        /\ resp.status = 200
        /\ Len(resp.results) > 0 =>
              resp.synthesized_answer =
                  IF Truthy(environ.GROQ_API_KEY) THEN ErrGenerating ELSE ErrNoKey
        /\ Len(resp.results) = 0 => resp.synthesized_answer = None

\* C9 witness: the completion call raised during a search with results.
SynthesisFailureWitness ==
    /\ resp.op = "search"
    /\ resp.status = 200
    /\ resp.synthesize_answer
    /\ resp.oracle = "raises"
    /\ resp.oracle_called
    /\ Len(resp.results) > 0
    /\ resp.synthesized_answer = ErrGenerating

\* C10 as claimed: synthesize with an empty result list returns the "no
\* relevant information found" message without calling the oracle, in every
\* configuration.
EmptyResultsAsClaimed ==
    (resp.op = "synthesize" /\ resp.results = <<>>) =>
        (resp.answer = NoInfo /\ ~resp.oracle_called)

\* C10 amended: synthesize with an empty result list never calls the
\* oracle; it returns the "no relevant information found" message when the
\* synthesizer has a client and the "API key not configured" error when it
\* has none.
EmptyResultsShortCircuit ==
    (resp.op = "synthesize" /\ resp.results = <<>>) =>
        /\ ~resp.oracle_called
        /\ resp.answer = IF synthesizer.client THEN NoInfo ELSE ErrNoKey

\* C10 witness: a configured synthesizer was called with no results.
EmptyResultsWitness ==
    /\ resp.op = "synthesize"
    /\ resp.results = <<>>
    /\ synthesizer.client
    /\ resp.answer = NoInfo

\* C14: when synthesize builds a prompt (it has a client and n >= 1
\* results), the prompt holds exactly the first min(5, n) results in the
\* order supplied, numbered 1..min(5, n), each with its own filename, page
\* and text; no later result appears.
ContextAssembly ==
    (resp.op = "synthesize" /\ resp.oracle_called) =>
        /\ Len(resp.context) = Min(5, Len(resp.results))
        /\ \A i \in 1..Len(resp.context) :
              /\ resp.context[i].source = i
              /\ resp.context[i].filename = resp.results[i].filename
              /\ resp.context[i].page = resp.results[i].page
              /\ resp.context[i].text = resp.results[i].text

\* C14 witness: six results were supplied and five source blocks built.
ContextAssemblyWitness ==
    /\ resp.op = "synthesize"
    /\ resp.oracle_called
    /\ Len(resp.results) = 6
    /\ Len(resp.context) = 5
    /\ resp.context[1].filename # resp.context[5].filename

\* The candidates of the answered search: the owner's rows in the order of
\* the index, cut to the width asked of the index.
Candidates ==
    LET Mine(e) == ~Truthy(resp.user_id) \/ e.user_id = resp.user_id
    IN  Take(SelectSeq(NNOrder(resp.query, index), Mine), resp.n_results)

\* The normalized rerank score of a candidate, rounded to 4 decimals.
ExpectedRerankScore(chunk_id) ==
    LET raws == {QueryRaw(resp.query, Candidates[i].chunk_id) : i \in 1..Len(Candidates)}
        mn   == CHOOSE x \in raws : \A y \in raws : x <= y
        mx   == CHOOSE x \in raws : \A y \in raws : x >= y
    IN  IF mx = mn THEN 5000
        ELSE Round4(QueryRaw(resp.query, chunk_id) - mn, mx - mn)

\* C16: when reranking was applied, search returns at most top_k results in
\* non-increasing order of normalized rerank score; each result's
\* similarity_score is that score rounded to 4 decimals; every result is one
\* of the retrieved candidates, none twice, and no candidate left out scores
\* higher than a returned one.
RerankedResults ==
    (resp.op \in {"search", "engine_search"} /\ resp.status = 200 /\ resp.reranked) =>
        LET ids == {Candidates[i].chunk_id : i \in 1..Len(Candidates)}
            got == {resp.results[i].chunk_id : i \in 1..Len(resp.results)}
        IN  /\ Len(resp.results) = Min(resp.top_k, Len(Candidates))
            /\ \A i \in 1..Len(resp.results) :
                  /\ resp.results[i].chunk_id \in ids
                  /\ resp.results[i].similarity_score =
                        ExpectedRerankScore(resp.results[i].chunk_id)
                  /\ \A j \in 1..Len(resp.results) :
                        /\ i < j => resp.results[i].similarity_score
                                        >= resp.results[j].similarity_score
                        /\ i # j => resp.results[i].chunk_id # resp.results[j].chunk_id
                  /\ \A c \in ids \ got :
                        ExpectedRerankScore(c) <= resp.results[i].similarity_score

\* C16 witness: a reranked answer whose order differs from the similarity
\* order and whose best result carries a score that is not its similarity.
RerankedResultsWitness ==
    /\ resp.op = "search"
    /\ resp.status = 200
    /\ resp.reranked
    /\ Len(resp.results) >= 3
    /\ resp.results[1].chunk_id # Candidates[1].chunk_id
    /\ resp.results[1].similarity_score = 10000
    /\ resp.results[2].similarity_score = 6667

\* C30: a POST /search invokes the synthesizer only when synthesis is
\* requested and the search returned at least one result; on zero results
\* the response's synthesized_answer is null, never the "no relevant
\* information found" message; and the results returned are those of the
\* search alone, whether or not synthesis was requested.
SynthesisGating ==
    [][ resp'.op = "search" =>
          LET invoked == \/ synthesizer' # synthesizer
                         \/ (resp'.status = 200 /\ resp'.synthesized_answer # None)
          IN  /\ invoked => /\ resp'.synthesize_answer
                            /\ resp'.status = 200
                            /\ Len(resp'.results) > 0
              /\ (resp'.status = 200 /\ Len(resp'.results) = 0) =>
                    /\ resp'.synthesized_answer = None
                    /\ resp'.synthesized_answer # NoInfo
              /\ resp'.status = 200 =>
                    \E nn \in {NNOrder(resp'.query, index)} :
                        resp'.results =
                            Search(index, search_engine', resp'.top_k,
                                   resp'.use_reranking, resp'.user_id, nn,
                                   DistOf(resp'.query, nn), RawOf(resp'.query, nn),
                                   TRUE).results ]_vars

\* C30 witness: synthesis was requested, the search returned nothing, and
\* the answer is null with no synthesizer ever built.
SynthesisGatingWitness ==
    /\ resp.op = "search"
    /\ resp.status = 200
    /\ resp.synthesize_answer
    /\ resp.results = <<>>
    /\ resp.synthesized_answer = None
    /\ synthesizer = Nothing
    /\ environ.GROQ_API_KEY # None

\* The position of a returned chunk among the candidates.
CandidatePosition(chunk_id) ==
    CHOOSE i \in 1..Len(Candidates) : Candidates[i].chunk_id = chunk_id

\* The normalized rerank scores of the candidates, in candidate order.
CandidateScores == Normalize(RawOf(resp.query, Candidates))

\* C28: when reranking was applied, results with equal normalized scores
\* come in the order of the candidates; when the oracle scores all
\* candidates the same, the results are the first top_k candidates in their
\* order, each with the score 0.5.
RerankTies ==
    (resp.op \in {"search", "engine_search"} /\ resp.status = 200 /\ resp.reranked) =>
        /\ \A i \in 1..Len(resp.results) : \A j \in (i + 1)..Len(resp.results) :
              LET ci == CandidatePosition(resp.results[i].chunk_id)
                  cj == CandidatePosition(resp.results[j].chunk_id)
              IN  RatEq(CandidateScores[ci], CandidateScores[cj]) => ci < cj
        /\ (\A c \in 1..Len(Candidates) :
                QueryRaw(resp.query, Candidates[c].chunk_id)
                    = QueryRaw(resp.query, Candidates[1].chunk_id)) =>
              /\ Len(resp.results) = Min(resp.top_k, Len(Candidates))
              /\ \A i \in 1..Len(resp.results) :
                    /\ resp.results[i].chunk_id = Candidates[i].chunk_id
                    /\ resp.results[i].similarity_score = 5000

\* C28 witness: the oracle scored all candidates the same and several
\* results were returned.
RerankTiesWitness ==
    /\ resp.op = "search"
    /\ resp.status = 200
    /\ resp.reranked
    /\ resp.query = "q2"
    /\ Len(resp.results) >= 3
    /\ resp.results[3].similarity_score = 5000

\* C17 as claimed: when reranking was not applied, search returns the first
\* min(top_k, n) index results in the index's order, each with the score
\* 1 - distance.
SimilarityResultsAsClaimed ==
    (resp.op \in {"search", "engine_search"} /\ resp.status = 200 /\ ~resp.reranked) =>
        /\ Len(resp.results) = Min(resp.top_k, Len(Candidates))
        /\ \A i \in 1..Len(resp.results) :
              /\ resp.results[i].chunk_id = Candidates[i].chunk_id
              /\ 10 * resp.results[i].similarity_score =
                    100000 - QueryDistance(resp.query, Candidates[i].chunk_id)

\* C17 amended: ... each with the score round(1 - distance, 4); the scores
\* are non-increasing whenever the index returns non-decreasing distances.
SimilarityResults ==
    (resp.op \in {"search", "engine_search"} /\ resp.status = 200 /\ ~resp.reranked) =>
        /\ Len(resp.results) = Min(resp.top_k, Len(Candidates))
        /\ \A i \in 1..Len(resp.results) :
              /\ resp.results[i].chunk_id = Candidates[i].chunk_id
              /\ resp.results[i].similarity_score =
                    Round4(100000 - QueryDistance(resp.query, Candidates[i].chunk_id),
                           100000)
              /\ \A j \in 1..Len(resp.results) :
                    i < j => resp.results[i].similarity_score
                                >= resp.results[j].similarity_score

\* C17 witness: an answer without reranking (reranking not requested) whose
\* first score was rounded.
SimilarityResultsWitness ==
    /\ resp.op = "search"
    /\ resp.status = 200
    /\ ~resp.reranked
    /\ search_engine.reranker
    /\ Len(resp.results) >= 2
    /\ 10 * resp.results[1].similarity_score
          # 100000 - QueryDistance(resp.query, resp.results[1].chunk_id)

\* C19 as claimed: a search during which the Reranking Oracle raises still
\* completes with status 200 and results.
RerankFailureContained ==
    (resp.op \in {"search", "engine_search"} /\ resp.rerank_raised) =>
        resp.status = 200

(***************************************************************************)
(* Text extraction alone (specification SpecExtract): one run of           *)
(* _extract_text_from_pdf, page by page, on a document [open_ok, pages].   *)
(* out is [text_by_page, ocr_pages, attempted, ocr_used, total_pages];     *)
(* attempted[k] records whether the OCR branch was entered for page k.     *)
(***************************************************************************)
MaxDocPages == 2

\* Pages with a text layer, pages whose text layer cannot be read, and
\* pages without text for every outcome of the OCR branch.
PageKinds ==
    { [layer |-> l, image |-> "ok", psm3 |-> "ocr3 text", psm1 |-> "ocr1 text"] :
        l \in {"layer text", Raises} }
    \cup { [layer |-> l, image |-> i, psm3 |-> Raises, psm1 |-> Raises] :
        l \in {"", " \n"}, i \in {"render", "preprocess"} }
    \cup { [layer |-> l, image |-> "ok", psm3 |-> t, psm1 |-> "ocr1 text"] :
        l \in {"", " \n"}, t \in {"", "ocr3 text"} }
    \cup { [layer |-> l, image |-> "ok", psm3 |-> Raises, psm1 |-> t] :
        l \in {"", " \n"}, t \in {Raises, "ocr1 text"} }

ExtractInputs ==
    { [open_ok |-> FALSE, pages |-> <<>>] }
    \cup { [open_ok |-> TRUE, pages |-> ps] :
            ps \in UNION {[1..n -> PageKinds] : n \in 0..MaxDocPages} }

InitExtract ==
    /\ index = {}
    /\ resp = Idle
    /\ search_engine = Nothing
    /\ load_attempts = 0
    /\ synthesizer = Nothing
    /\ environ = [GROQ_API_KEY |-> None]
    /\ pc = "open"
    /\ inp \in ExtractInputs
    /\ out = Nothing

\* text_by_page = {}; ocr_pages = 0; doc = fitz.open(pdf_path)
OpenDocument ==
    /\ pc = "open"
    /\ IF inp.open_ok
       THEN /\ pc' = "page"
            /\ out' = [text_by_page |-> <<>>, ocr_pages |-> 0, attempted |-> <<>>,
                       ocr_used |-> FALSE, total_pages |-> Len(inp.pages)]
       ELSE pc' = "raised" /\ out' = out
    /\ UNCHANGED <<index, resp, search_engine, load_attempts, synthesizer, environ, inp>>

\* One iteration of `for page_num in range(total_pages)`.
ExtractNextPage ==
    /\ pc = "page"
    /\ Len(out.text_by_page) < Len(inp.pages)
    /\ LET page_num == Len(out.text_by_page)
           r        == ExtractPage(inp.pages[page_num + 1])
       IN  IF r.raised
           THEN pc' = "raised" /\ out' = out
           ELSE /\ pc' = "page"
                /\ out' = [out EXCEPT
                            !.text_by_page = [k \in (DOMAIN @) \cup {page_num + 1} |->
                                                IF k = page_num + 1 THEN r.text ELSE @[k]],
                            !.attempted = Append(@, r.attempted),
                            !.ocr_pages = @ + r.ocr]
    /\ UNCHANGED <<index, resp, search_engine, load_attempts, synthesizer, environ, inp>>

\* doc.close(); ocr_used = ocr_pages > 0; return
FinishExtraction ==
    /\ pc = "page"
    /\ Len(out.text_by_page) = Len(inp.pages)
    /\ pc' = "done"
    /\ out' = [out EXCEPT !.ocr_used = out.ocr_pages > 0]
    /\ UNCHANGED <<index, resp, search_engine, load_attempts, synthesizer, environ, inp>>

NextExtract == OpenDocument \/ ExtractNextPage \/ FinishExtraction

SpecExtract == InitExtract /\ [][NextExtract]_vars

\* The page the next iteration of the loop reads.
CurrentPage == inp.pages[Len(out.text_by_page) + 1]
PageStep == pc = "page" /\ pc' = "page" /\ out' # out

\* C12: OCR is attempted for a page iff its directly extracted text is empty
\* after trimming; when mode 3 raises and mode 1 succeeds the page's text is
\* the mode-1 output and ocr_pages grows by exactly 1; a page with a
\* non-empty text layer keeps its text and leaves ocr_pages unchanged.
OcrFallbackDecision ==
    [][ PageStep =>
          LET k == Len(out.text_by_page) + 1
          IN  /\ out'.attempted[k] = IsBlank(CurrentPage.layer)
              /\ ( /\ IsBlank(CurrentPage.layer) /\ CurrentPage.image = "ok"
                   /\ CurrentPage.psm3 = Raises /\ CurrentPage.psm1 # Raises )
                 => ( /\ out'.text_by_page[k] = CurrentPage.psm1
                      /\ out'.ocr_pages = out.ocr_pages + 1 )
              /\ ~IsBlank(CurrentPage.layer)
                 => ( /\ out'.text_by_page[k] = CurrentPage.layer
                      /\ out'.ocr_pages = out.ocr_pages ) ]_vars

\* C12 witness: a document whose second page has no text layer, fails in
\* mode 3 and is read in mode 1 was extracted completely.
OcrFallbackWitness ==
    /\ pc = "done"
    /\ Len(inp.pages) = 2
    /\ ~IsBlank(inp.pages[1].layer)
    /\ IsBlank(inp.pages[2].layer)
    /\ inp.pages[2].psm3 = Raises
    /\ out.text_by_page[2] = "ocr1 text"
    /\ out.ocr_pages = 1

OcrFails(page) ==
    IsBlank(page.layer) /\ (page.image # "ok" \/ (page.psm3 = Raises /\ page.psm1 = Raises))

\* C20: a page whose OCR fails in both modes, or whose rendering or
\* preprocessing raises, gets the empty text, does not count in ocr_pages and
\* does not stop the loop; a finished extraction has exactly the keys
\* 1..total_pages; extraction raises only when the document cannot be opened
\* or a page of it cannot be read.
OcrFailureRecovered ==
    /\ [][ (pc = "page" /\ Len(out.text_by_page) < Len(inp.pages) /\ OcrFails(CurrentPage))
           => ( /\ pc' = "page"
                /\ out'.text_by_page[Len(out.text_by_page) + 1] = ""
                /\ out'.ocr_pages = out.ocr_pages ) ]_vars
    /\ [](pc = "done" => ( /\ DOMAIN out.text_by_page = 1..Len(inp.pages)
                           /\ out.total_pages = Len(inp.pages) ))
    /\ [](pc = "raised" => ( \/ ~inp.open_ok
                             \/ \E k \in 1..Len(inp.pages) : inp.pages[k].layer = Raises ))

\* C20 witness: OCR of the first page failed and the second page was still
\* extracted.
OcrFailureWitness ==
    /\ pc = "done"
    /\ Len(inp.pages) = 2
    /\ OcrFails(inp.pages[1])
    /\ inp.pages[1].image = "ok"
    /\ out.text_by_page[1] = ""
    /\ out.text_by_page[2] = "layer text"
    /\ out.ocr_pages = 0

(***************************************************************************)
(* The index adapter alone (specification SpecStore): direct calls of      *)
(* VectorDatabase.add_documents and VectorDatabase.delete_document, the    *)
(* latter with and without an owner.                                       *)
(***************************************************************************)
\* Chunks of two documents in two versions each: written by alice with one
\* text, or by bob with another.
StoreChunks ==
    { [ text |-> v[2], document_id |-> d, filename |-> d[1], page |-> 1,
        chunk_id |-> <<d, n>>, total_chunks |-> 2, user_id |-> v[1],
        total_pages |-> 1 ] :
        d \in DocIds, n \in {0, 1}, v \in {<<"alice", <<0, 100>>>>, <<"bob", <<0, 200>>>>} }

\* The batches of one call: ids unique within the call.
StoreBatches ==
    { <<c>> : c \in StoreChunks }
    \cup { <<p[1], p[2]>> : p \in {q \in StoreChunks \X StoreChunks :
                                     q[1].chunk_id # q[2].chunk_id} }

\* db.add_documents(texts, embeddings, metadatas, ids)
StoreAdd(batch) ==
    /\ index' = AddDocuments(index, batch)
    /\ resp' = [op |-> "add", batch |-> batch]
    /\ UNCHANGED <<search_engine, load_attempts, synthesizer, environ, pc, inp, out>>

\* db.delete_document(document_id, user_id); user_id None is the default of
\* the parameter.  The response records the rows removed.
StoreDelete(document_id, user_id) ==
    LET res == DbDeleteDocument(index, document_id, user_id)
    IN  /\ index' = res[1]
        /\ resp' = [op |-> "db_delete", document_id |-> document_id,
                    user_id |-> user_id, deleted |-> res[2],
                    removed |-> index \ res[1]]
        /\ UNCHANGED <<search_engine, load_attempts, synthesizer, environ, pc, inp, out>>

InitStore ==
    /\ index = {}
    /\ resp = Idle
    /\ search_engine = Nothing
    /\ load_attempts = 0
    /\ synthesizer = Nothing
    /\ environ = [GROQ_API_KEY |-> None]
    /\ pc = "store"
    /\ inp = Nothing
    /\ out = Nothing

DoStoreAdd == \E batch \in StoreBatches : StoreAdd(batch)
DoStoreDelete == \E d \in DocIds, u \in Owners \cup {None, Empty} : StoreDelete(d, u)

NextStore == DoStoreAdd \/ DoStoreDelete

SpecStore == InitStore /\ [][NextStore]_vars

\* C13 as claimed: after a batch write the index holds, for every id of the
\* batch, exactly one entry, and it carries the text and metadata (owner
\* included) of that write, also when the id was stored before.
DuplicateIdOverwrites ==
    resp.op = "add" =>
        \A i \in 1..Len(resp.batch) :
            /\ Cardinality({e \in index : e.chunk_id = resp.batch[i].chunk_id}) = 1
            /\ ToEntry(resp.batch[i]) \in index

\* C18 as claimed: a delete_document call without an owner (None, the
\* default, or the empty string) removes no chunk that is stored for an
\* owner.
DeleteWithoutOwnerRemovesNothing ==
    (resp.op = "db_delete" /\ ~Truthy(resp.user_id)) =>
        \A e \in resp.removed : e.user_id = NoUser

(***************************************************************************)
(* Ingestion step by step (specification SpecIngest): one upload_document  *)
(* call at a time runs through process_pdf, embed_batch, add_documents and *)
(* the response, while searches of other workers on the same index are     *)
(* answered between its steps.  inp is the upload in progress, out its     *)
(* chunks, pc its position.                                                *)
(***************************************************************************)
\* processor.process_pdf(...) and the zero-chunk check
BeginUpload(user_id, filename, now, total_words, total_pages, fault) ==
    LET chunks == ProcessPdf(filename, user_id, now, total_words, total_pages)
        failed(detail) == [op |-> "upload", user_id |-> user_id, status |-> 500,
                           detail |-> detail, total_words |-> total_words,
                           fault |-> fault]
    IN  /\ pc = "idle"
        /\ Cardinality(AddDocuments(index, chunks)) <= MaxIndex
        /\ IF fault = "extract"
           THEN resp' = failed("extraction failed") /\ UNCHANGED <<pc, inp, out>>
           ELSE IF Len(chunks) = 0
           THEN /\ resp' = failed("400: No text extracted from PDF")
                /\ UNCHANGED <<pc, inp, out>>
           ELSE /\ pc' = "processed"
                /\ inp' = [user_id |-> user_id, total_words |-> total_words,
                           fault |-> fault, document_id |-> chunks[1].document_id]
                /\ out' = chunks
                /\ resp' = resp
        /\ UNCHANGED <<index, search_engine, load_attempts, synthesizer, environ>>

\* embedder.embed_batch(texts)
EmbedBatch ==
    /\ pc = "processed"
    /\ IF inp.fault = "embed"
       THEN /\ pc' = "idle"
            /\ resp' = [op |-> "upload", user_id |-> inp.user_id, status |-> 500,
                        detail |-> "embedding failed",
                        total_words |-> inp.total_words, fault |-> inp.fault]
            /\ inp' = Nothing
            /\ out' = Nothing
       ELSE pc' = "embedded" /\ UNCHANGED <<resp, inp, out>>
    /\ UNCHANGED <<index, search_engine, load_attempts, synthesizer, environ>>

\* db.add_documents(texts, embeddings, metadatas, ids): the one batch write
WriteBatch ==
    /\ pc = "embedded"
    /\ index' = AddDocuments(index, out)
    /\ pc' = "written"
    /\ UNCHANGED <<resp, search_engine, load_attempts, synthesizer, environ, inp, out>>

\* return UploadResponse(...)
RespondUpload ==
    /\ pc = "written"
    /\ resp' = [op |-> "upload", user_id |-> inp.user_id, status |-> 200,
                document_id |-> out[1].document_id, total_chunks |-> Len(out),
                total_words |-> inp.total_words, fault |-> inp.fault]
    /\ pc' = "idle"
    /\ inp' = Nothing
    /\ out' = Nothing
    /\ UNCHANGED <<index, search_engine, load_attempts, synthesizer, environ>>

InitIngest ==
    /\ index = {}
    /\ resp = Idle
    /\ search_engine = Nothing
    /\ load_attempts = 0
    /\ synthesizer = Nothing
    /\ environ = [GROQ_API_KEY |-> "gsk"]
    /\ pc = "idle"
    /\ inp = Nothing
    /\ out = Nothing

DoBeginUpload ==
    \E u \in Owners, k \in UploadKeys, w \in WordCounts,
       p \in PageCounts, fault \in Faults : BeginUpload(u, k[1], k[2], w, p, fault)

\* A search of another worker, answered between two steps of the upload.
DoSearchWhileIngesting ==
    \E u \in Owners, rr \in BOOLEAN, q \in {"q1"} :
        \E nn \in {NNOrder(q, index)} :
            SearchDocuments(u, q, MaxIndex, rr, FALSE, TRUE, "ok",
                            nn, DistOf(q, nn), RawOf(q, nn), TRUE)

NextIngest ==
    DoBeginUpload \/ EmbedBatch \/ WriteBatch \/ RespondUpload \/ DoSearchWhileIngesting

SpecIngest == InitIngest /\ [][NextIngest]_vars

\* C15 as claimed: a search answered while the upload has not yet written
\* returns no chunk of its document; once the write has returned, all chunks
\* of the upload are in the index for searches that start then; and only the
\* write step of an upload changes the index.
IngestionVisibility ==
    [][ /\ ( /\ pc' \in {"processed", "embedded"}
             /\ resp' # resp /\ resp'.op = "search" /\ resp'.status = 200 )
           => \A i \in 1..Len(resp'.results) :
                  resp'.results[i].document_id # inp'.document_id
        /\ (pc = "embedded" /\ pc' = "written")
           => \A i \in 1..Len(out) : ToEntry(out[i]) \in index'
        /\ index' # index => (pc = "embedded" /\ pc' = "written") ]_vars

====
